---------------------------- MODULE Spec2Model ----------------------------
(***************************************************************************)
(* A model of the LLM-powered MCP agent of src/mcp_server_.py:             *)
(* LLMPoweredMCPAgent.initialize (tool discovery over the configured       *)
(* servers) and LLMPoweredMCPAgent.run (select_tool, extract_arguments,    *)
(* execute_tool), with the language model (the Decider) and the tool       *)
(* servers as nondeterministic environments.                               *)
(***************************************************************************)
EXTENDS Integers, Sequences, FiniteSets, TLC

(***************************************************************************)
(* Bounds of the model.                                                    *)
(***************************************************************************)
\* Number of servers in config.json (MCPManager.clients).
NumServers == 2

(***************************************************************************)
(* Values.                                                                 *)
(***************************************************************************)
\* Python's None (an MCP Tool's description is optional).
None == "<None>"

\* The text the Decider's values stand for in an argument mapping.
LLMValue == "<llm value>"

\* Server names, in the order of config.json's "mcpServers" object.
AllServerNames == <<"weather-server", "agricultural-server", "blog-server", "extra-server">>

\* MCPManager.clients: a dict, iterated in insertion order.
clients == SubSeq(AllServerNames, 1, NumServers)

ClientNames == {clients[i] : i \in 1..Len(clients)}

\* A server name the Decider may invent.
GhostServer == "ghost-server"

\* A tool name the Decider may invent.
GhostTool == "ghost_tool"

(***************************************************************************)
(* The state: the agent's registry, and the request run is serving.        *)
(***************************************************************************)
VARIABLES
    all_tools,        \* LLMPoweredMCPAgent.all_tools
    tool_to_server,   \* LLMPoweredMCPAgent.tool_to_server
    total_tools,      \* initialize's count of the tools it loaded
    failures,         \* the servers initialize reported as "Failed", in order
    listed,           \* what each visited server answered to initialize
    init_pc,          \* index in clients of the next server initialize visits
    pc,               \* where the request being served is in run
    user_message,     \* run's user_message
    selection,        \* run's selection (server, tool, reasoning)
    arguments,        \* run's arguments
    dispatch_result,  \* the dict run returned
    raised,           \* the exception run raised
    decider_log,      \* the Decider's replies to this request, in order
    connections,      \* the servers this request opened a connection to
    executions,       \* the calls of execute_tool this request made
    invocations,      \* the calls of client.call_tool this request made
    tool_outcome,     \* how this request's execute_tool ended: content or exception
    open_sessions,    \* the servers whose process and ClientSession are open
    previous,         \* the fallback dispatch before the one in selection, arguments
    rebuild_pc,       \* a second call of initialize: 0 before it starts, then the
                      \* index in clients of the next server it visits
    rebuild_listed,   \* what each visited server answered to that second call
    rebuild_start,    \* the catalog when that second call started
    view,             \* what the catalog endpoint (GET /tools) last answered
    view_connections, \* the servers the catalog endpoint has connected to
    wrap_pc,          \* src/agents.py, per call of discover_and_wrap_tools: the
                      \* index in clients of the next server the call visits
    langchain_tools,  \* per call: discover_and_wrap_tools' langchain_tools
    wrap_listed,      \* per call: what each visited server answered to it
    client_session,   \* per server: MCPClient.session, the ClientSession that
                      \* connect assigned last
    live_sessions,    \* the ClientSessions that are open
    sessions_made,    \* the number of ClientSessions created so far
    tasks,            \* per concurrent request: where it is in execute_tool, its
                      \* server, the session it opened, the session its tool
                      \* call went over and whether that session was open then
    direct,           \* a call of MCPClient.call_tool from outside connect
    tool_server       \* a tool server's process: its program, whether its MCP
                      \* library checks arguments against inputSchema, the call
                      \* it is handling and the replies it gave

(***************************************************************************)
(* Tool descriptors, as MCPClient.connect builds them from list_tools:     *)
(* name, description, inputSchema (properties in order, required).         *)
(***************************************************************************)
CityParam == [name |-> "city", type |-> "string", has_default |-> FALSE, default |-> None]

LimitParam == [name |-> "limit", type |-> "integer", has_default |-> TRUE, default |-> 5]

DaysParam == [name |-> "days", type |-> "integer", has_default |-> FALSE, default |-> None]

QueryParam == [name |-> "query", type |-> "string", has_default |-> TRUE, default |-> "general information"]

VerboseParam == [name |-> "verbose", type |-> "boolean", has_default |-> FALSE, default |-> None]

WeatherTool ==
    [name |-> "get_current_weather", description |-> "Get current weather",
     properties |-> <<CityParam>>, required |-> {"city"}]

PostsTool ==
    [name |-> "get_placeholder_posts", description |-> "Fetch mock blog posts",
     properties |-> <<LimitParam>>, required |-> {}]

PesticideTool ==
    [name |-> "get_pesticide_seed_info", description |-> "Pesticides and seeds",
     properties |-> <<QueryParam>>, required |-> {}]

CitrusTool ==
    [name |-> "citrus_pests_diseases", description |-> "Citrus knowledge base",
     properties |-> <<>>, required |-> {}]

\* A tool of some other server: two required parameters, neither with a default.
ForecastTool ==
    [name |-> "get_forecast", description |-> "Forecast for some days",
     properties |-> <<DaysParam, VerboseParam>>, required |-> {"days", "verbose"}]

\* A tool listed without a description (Tool.description is None).
UndescribedTool ==
    [name |-> "undescribed_tool", description |-> None,
     properties |-> <<>>, required |-> {}]

\* What a server's list_tools may answer.
Listings ==
    { <<>>,
      <<WeatherTool, PostsTool>>,
      <<PesticideTool>>,
      <<ForecastTool, CitrusTool>>,
      <<WeatherTool, UndescribedTool>> }

\* A discovery connection either fails (spawn, handshake or list_tools raises)
\* or yields the server's listing.
ConnectFails == [ok |-> FALSE, tools |-> <<>>]

DiscoveryOutcomes == {ConnectFails} \cup {[ok |-> TRUE, tools |-> l] : l \in Listings}

(***************************************************************************)
(* Python dicts: all_tools is a sequence of [server, tools] entries in     *)
(* insertion order; assigning an existing key keeps its position.          *)
(***************************************************************************)
DictKeys(d) == [i \in 1..Len(d) |-> d[i].server]

DictHas(d, k) == \E i \in 1..Len(d) : d[i].server = k

DictGet(d, k, dflt) ==
    IF DictHas(d, k) THEN d[CHOOSE i \in 1..Len(d) : d[i].server = k].tools ELSE dflt

DictSet(d, k, v) ==
    IF DictHas(d, k)
    THEN [i \in 1..Len(d) |-> IF d[i].server = k THEN [server |-> k, tools |-> v] ELSE d[i]]
    ELSE Append(d, [server |-> k, tools |-> v])

ToolNames(tools) == {tools[i].name : i \in 1..Len(tools)}

(***************************************************************************)
(* Text: a Python str is a sequence of one-character strings.              *)
(***************************************************************************)
UpperCase == <<"A","B","C","D","E","F","G","H","I","J","K","L","M",
               "N","O","P","Q","R","S","T","U","V","W","X","Y","Z">>

LowerCase == <<"a","b","c","d","e","f","g","h","i","j","k","l","m",
               "n","o","p","q","r","s","t","u","v","w","x","y","z">>

Digits == <<"0","1","2","3","4","5","6","7","8","9">>

IsUpper(c) == \E i \in 1..Len(UpperCase) : UpperCase[i] = c

IsLower(c) == \E i \in 1..Len(LowerCase) : LowerCase[i] = c

IsDigit(c) == \E i \in 1..Len(Digits) : Digits[i] = c

IsCased(c) == IsUpper(c) \/ IsLower(c)

\* A character of the regular expression class \w.
IsWordChar(c) == IsCased(c) \/ IsDigit(c) \/ c = "_"

IsSpace(c) == c = " "

LowerChar(c) ==
    IF IsUpper(c) THEN LowerCase[CHOOSE i \in 1..Len(UpperCase) : UpperCase[i] = c] ELSE c

UpperChar(c) ==
    IF IsLower(c) THEN UpperCase[CHOOSE i \in 1..Len(LowerCase) : LowerCase[i] = c] ELSE c

DigitValue(c) == (CHOOSE i \in 1..Len(Digits) : Digits[i] = c) - 1

\* str.lower()
Lower(s) == [i \in 1..Len(s) |-> LowerChar(s[i])]

\* str.title(): a cased character is upper-cased after an uncased one (or at
\* the start) and lower-cased after a cased one.
Title(s) ==
    [i \in 1..Len(s) |->
        IF i > 1 /\ IsCased(s[i - 1]) THEN LowerChar(s[i]) ELSE UpperChar(s[i])]

\* A strip that removes nothing.
StripNothing(s, chars) == s

\* str.strip(chars): leading and trailing characters of the set removed.
Strip(s, chars) ==
    LET keep == {i \in 1..Len(s) : s[i] \notin chars}
    IN IF keep = {} THEN <<>>
       ELSE LET first == CHOOSE i \in keep : \A j \in keep : i <= j
                last == CHOOSE i \in keep : \A j \in keep : j <= i
            IN SubSeq(s, first, last)

\* str.split(): the maximal runs of non-whitespace characters, in order.
RECURSIVE SplitFrom(_, _)
SplitFrom(s, i) ==
    IF i > Len(s) THEN <<>>
    ELSE IF IsSpace(s[i]) THEN SplitFrom(s, i + 1)
    ELSE LET stops == {j \in i..Len(s) : IsSpace(s[j])}
             end == IF stops = {} THEN Len(s) + 1
                    ELSE CHOOSE j \in stops : \A k \in stops : j <= k
         IN <<SubSeq(s, i, end - 1)>> \o SplitFrom(s, end)

Split(s) == SplitFrom(s, 1)

\* sub in s
Contains(sub, s) ==
    \E i \in 1..(Len(s) - Len(sub) + 1) : SubSeq(s, i, i + Len(sub) - 1) = sub

\* int(s) of a string of digits
RECURSIVE IntOf(_)
IntOf(s) ==
    IF s = <<>> THEN 0 ELSE 10 * IntOf(SubSeq(s, 1, Len(s) - 1)) + DigitValue(s[Len(s)])

\* The matches of a pattern without the word boundaries: every run of digits.
DigitRuns(s) ==
    {m \in (1..Len(s)) \X (1..Len(s)) :
        m[1] <= m[2] /\ \A k \in m[1]..m[2] : IsDigit(s[k])}

\* re.findall(r'\b\d+\b', s): the runs of digits with no word character next
\* to them, as [first, last] index pairs.
NumberMatches(s) ==
    {m \in (1..Len(s)) \X (1..Len(s)) :
        /\ m[1] <= m[2]
        /\ \A k \in m[1]..m[2] : IsDigit(s[k])
        /\ (m[1] = 1 \/ ~IsWordChar(s[m[1] - 1]))
        /\ (m[2] = Len(s) \/ ~IsWordChar(s[m[2] + 1]))}

\* The spelling of the parameter names of the tool descriptors.
Spelling(name) ==
    CASE name = "city" -> <<"c", "i", "t", "y">>
      [] name = "limit" -> <<"l", "i", "m", "i", "t">>
      [] name = "days" -> <<"d", "a", "y", "s">>
      [] name = "query" -> <<"q", "u", "e", "r", "y">>
      [] name = "verbose" -> <<"v", "e", "r", "b", "o", "s", "e">>

\* The request texts of the model.
Messages ==
    { <<"w", "e", "a", "t", "h", "e", "r", " ", "i", "n", " ", "P", "a", "r", "i", "s">>,
      <<"W", "h", "a", "t", "'", "s", " ", "t", "h", "e", " ", "w", "e", "a", "t", "h", "e", "r", " ", "i", "n", " ", "T", "o", "k", "y", "o", "?">>,
      <<"S", "h", "o", "w", " ", "m", "e", " ", "5", " ", "p", "o", "s", "t", "s">>,
      <<"H", "e", "l", "l", "o">>,
      <<"w", "e", "a", "t", "h", "e", "r", " ", "i", "n", " ", "N", "Y", "C">>,
      <<"L", "o", "o", "k", " ", "a", "t", " ", "3", " ", "o", "f", " ", "1", "0", " ", "p", "o", "s", "t", "s", " ", "i", "n", " ", "R", "o", "m", "e", "!">>,
      <<"W", "h", "a", "t", " ", "c", "i", "t", "y", " ", "a", "m", " ", "I", " ", "i", "n">>,
      <<"v", "2", " ", "h", "a", "s", " ", "7", "x", " ", "4", "2", " ", "p", "o", "s", "t", "s">> }

(***************************************************************************)
(* The catalog (all_tools) as select_tool and extract_arguments read it.   *)
(***************************************************************************)
\* The tool descriptors server_name lists under tool_name, in listing order.
ToolsNamed(catalog, server_name, tool_name) ==
    LET tools == DictGet(catalog, server_name, <<>>)
    IN SelectSeq(tools, LAMBDA t : t.name = tool_name)

InCatalog(catalog, server_name, tool_name) ==
    ToolsNamed(catalog, server_name, tool_name) # <<>>

\* sum(len(tools) for tools in all_tools.values())
RECURSIVE CatalogSize(_)
CatalogSize(catalog) ==
    IF catalog = <<>> THEN 0
    ELSE Len(catalog[1].tools) + CatalogSize(Tail(catalog))

CatalogToolNames(catalog) ==
    UNION {ToolNames(catalog[i].tools) : i \in 1..Len(catalog)}

ParamNames(properties) == {properties[i].name : i \in 1..Len(properties)}

(***************************************************************************)
(* The Decider (self.llm.ainvoke and the parsing of its answer).           *)
(***************************************************************************)
\* The ways a Decider call ends in the except branch: ainvoke raises, or
\* its answer is not the JSON object asked for (json.loads or a key lookup
\* raises).
DeciderErrors == {"LLM call failed", "Expecting value: line 1 column 1 (char 0)"}

\* The answers to the selection prompt.
SelectionReplies(catalog) ==
    {[kind |-> "error", error |-> e, server |-> None, tool |-> None] : e \in DeciderErrors}
    \cup {[kind |-> "json", error |-> None, server |-> sv, tool |-> t] :
             sv \in ClientNames \cup {GhostServer},
             t \in CatalogToolNames(catalog) \cup {GhostTool}}

\* Python dicts of arguments and the other JSON values the Decider may answer
\* with: form is "dict" or "list", items maps the keys of a dict to values.
EmptyDict == [form |-> "dict", items |-> [k \in {} |-> None]]

NotADict == [form |-> "list", items |-> [k \in {} |-> None]]

UnknownKey == "unknown_key"

\* The answers to the argument prompt for a schema with these properties.
ArgumentReplies(properties) ==
    {[kind |-> "error", error |-> e, value |-> EmptyDict] : e \in DeciderErrors}
    \cup {[kind |-> "json", error |-> None, value |-> NotADict]}
    \cup {[kind |-> "json", error |-> None,
           value |-> [form |-> "dict", items |-> [k \in ks |-> LLMValue]]] :
             ks \in SUBSET (ParamNames(properties) \cup {UnknownKey})}

(***************************************************************************)
(* select_tool                                                             *)
(***************************************************************************)
FallbackReasoning(e) == <<"Fallback due to error: ", e>>

LLMReasoning == <<"llm reasoning">>

\* A select_tool whose fallback depends on the error: the first server for
\* a failed call, the last one for an answer that does not parse.
SelectToolByError(catalog, reply) ==
    IF reply.kind = "json"
    THEN [raised |-> None,
          selection |-> [server |-> reply.server, tool |-> reply.tool,
                         reasoning |-> LLMReasoning]]
    ELSE IF Len(DictKeys(catalog)) = 0
         THEN [raised |-> "IndexError: list index out of range", selection |-> None]
         ELSE LET server == IF reply.error = "LLM call failed"
                            THEN DictKeys(catalog)[1]
                            ELSE DictKeys(catalog)[Len(catalog)]
              IN IF Len(DictGet(catalog, server, <<>>)) = 0
                 THEN [raised |-> "IndexError: list index out of range", selection |-> None]
                 ELSE [raised |-> None,
                       selection |->
                          [server |-> server,
                           tool |-> DictGet(catalog, server, <<>>)[1].name,
                           reasoning |-> FallbackReasoning(reply.error)]]

\* The value select_tool returns, or the exception it raises, for the
\* Decider's reply.
SelectTool(catalog, reply) ==
    IF reply.kind = "json"
    THEN [raised |-> None,
          selection |-> [server |-> reply.server, tool |-> reply.tool,
                         reasoning |-> LLMReasoning]]
    ELSE \* first_server = list(self.all_tools.keys())[0]
         IF Len(DictKeys(catalog)) = 0
         THEN [raised |-> "IndexError: list index out of range", selection |-> None]
         ELSE LET first_server == DictKeys(catalog)[1]
              IN \* first_tool = self.all_tools[first_server][0]['name']
                 IF Len(DictGet(catalog, first_server, <<>>)) = 0
                 THEN [raised |-> "IndexError: list index out of range", selection |-> None]
                 ELSE [raised |-> None,
                       selection |->
                          [server |-> first_server,
                           tool |-> DictGet(catalog, first_server, <<>>)[1].name,
                           reasoning |-> FallbackReasoning(reply.error)]]

(***************************************************************************)
(* extract_arguments and _basic_argument_extraction                        *)
(***************************************************************************)
Prepositions == { <<"i", "n">>, <<"f", "o", "r">>, <<"a", "t">> }

\* words[i] of a Python list, positions counted from 1: the element, or the
\* IndexError of a position outside the list.
ListIndex(words, i) ==
    IF i \in 1..Len(words)
    THEN [raised |-> None, value |-> words[i]]
    ELSE [raised |-> "IndexError: list index out of range", value |-> None]

\* A loop over the words that reads the next word of every word.
HasNextWordUnchecked(words, i) == TRUE

\* i + 1 < len(words): the word at position i is not the last one.
HasNextWord(words, i) == i + 1 <= Len(words)

\* What _basic_argument_extraction does for one parameter: whether it sets
\* the parameter, and to what, or the exception it raises.
BasicArgument(message, param_info) ==
    IF param_info.type = "string"
    THEN IF Contains(<<"c", "i", "t", "y">>, Lower(Spelling(param_info.name)))
         THEN LET words == Split(message)
                  hits == {i \in 1..Len(words) :
                              Lower(words[i]) \in Prepositions /\ HasNextWord(words, i)}
              IN IF hits # {}
                 THEN LET i == CHOOSE h \in hits : \A k \in hits : h <= k
                          next == ListIndex(words, i + 1)
                      IN IF next.raised # None
                         THEN [set |-> FALSE, value |-> None, raised |-> next.raised]
                         ELSE [set |-> TRUE,
                               value |-> Title(Strip(next.value, {"?", ".", ",", "!"})),
                               raised |-> None]
                 ELSE [set |-> TRUE, value |-> <<"L", "o", "n", "d", "o", "n">>,
                       raised |-> None]
         ELSE [set |-> TRUE, value |-> message, raised |-> None]
    ELSE IF param_info.type = "integer"
    THEN LET numbers == NumberMatches(message)
         IN IF numbers # {}
            THEN LET m == CHOOSE n \in numbers : \A k \in numbers : n[1] <= k[1]
                 IN [set |-> TRUE, value |-> IntOf(SubSeq(message, m[1], m[2])),
                     raised |-> None]
            ELSE IF param_info.has_default
            THEN [set |-> TRUE, value |-> param_info.default, raised |-> None]
            ELSE [set |-> FALSE, value |-> None, raised |-> None]
    ELSE [set |-> FALSE, value |-> None, raised |-> None]

\* The exception _basic_argument_extraction raises (that of the first
\* parameter that raises), None when it returns.
BasicArgumentExtractionRaised(message, properties) ==
    LET bad == {i \in 1..Len(properties) :
                   BasicArgument(message, properties[i]).raised # None}
    IN IF bad = {} THEN None
       ELSE BasicArgument(message,
                properties[CHOOSE i \in bad : \A j \in bad : i <= j]).raised

BasicArgumentExtraction(message, properties) ==
    LET set == {i \in 1..Len(properties) : BasicArgument(message, properties[i]).set}
    IN [form |-> "dict",
        items |-> [k \in {properties[i].name : i \in set} |->
                      BasicArgument(message,
                          properties[CHOOSE i \in set : properties[i].name = k]).value]]

\* The properties of the schema extract_arguments finds for the selection
\* (the first tool of that name under the server), <<>> when it finds none.
SchemaProperties(catalog, tool_name, server_name) ==
    LET found == ToolsNamed(catalog, server_name, tool_name)
    IN IF found = <<>> THEN <<>> ELSE found[1].properties

\* An extract_arguments that asks the Decider for every listed tool, with
\* or without parameters.
AsksDeciderWhenListed(catalog, tool_name, server_name) ==
    InCatalog(catalog, server_name, tool_name)

\* extract_arguments asks the Decider only for a schema with properties.
AsksDecider(catalog, tool_name, server_name) ==
    SchemaProperties(catalog, tool_name, server_name) # <<>>

\* The value extract_arguments returns for the Decider's reply.
ExtractArguments(catalog, message, tool_name, server_name, reply) ==
    IF ~AsksDecider(catalog, tool_name, server_name)
    THEN EmptyDict
    ELSE IF reply.kind = "json"
    THEN reply.value
    ELSE BasicArgumentExtraction(message,
                                 SchemaProperties(catalog, tool_name, server_name))

\* The exception extract_arguments raises for the Decider's reply, None
\* when it returns: its except branch calls the heuristic extractor
\* outside any try.
ExtractArgumentsRaised(catalog, message, tool_name, server_name, reply) ==
    IF AsksDecider(catalog, tool_name, server_name) /\ reply.kind = "error"
    THEN BasicArgumentExtractionRaised(message,
             SchemaProperties(catalog, tool_name, server_name))
    ELSE None

(***************************************************************************)
(* execute_tool and MCPClient.call_tool                                    *)
(***************************************************************************)
\* An execute_tool that completes the arguments: every required parameter
\* of the tool that has no value is passed as None.
InvocationRequestCompleted(server_name, tool_name, args) ==
    LET found == ToolsNamed(all_tools, server_name, tool_name)
        required == IF found = <<>> THEN {} ELSE found[1].required
    IN [server |-> server_name, tool |-> tool_name,
        arguments |->
           [args EXCEPT !.items =
               [k \in (DOMAIN @) \cup required |->
                   IF k \in DOMAIN @ THEN @[k] ELSE None]]]

\* What the agent hands to client.call_tool.
InvocationRequest(server_name, tool_name, args) ==
    [server |-> server_name, tool |-> tool_name, arguments |-> args]

\* The content items of a tool result: text items, and items with no text
\* attribute (images).
TextItem(t) == [has_text |-> TRUE, text |-> t]

ImageItem == [has_text |-> FALSE, text |-> None]

ToolContents ==
    { <<>>, <<TextItem("line one")>>, <<TextItem("line one"), TextItem("line two")>>,
      <<ImageItem, TextItem("line two")>> }

\* "\n".join(texts), as the sequence of its pieces
RECURSIVE Join(_)
Join(texts) ==
    IF Len(texts) <= 1 THEN texts
    ELSE <<texts[1], "\n">> \o Join(Tail(texts))

\* A call_tool that joins the texts whatever the content is.
CallToolTextJoined(content) ==
    Join([i \in 1..Len(SelectSeq(content, LAMBDA c : c.has_text)) |->
             SelectSeq(content, LAMBDA c : c.has_text)[i].text])

\* What MCPClient.call_tool returns for the content of the server's result.
CallToolText(content) ==
    IF content # <<>>
    THEN Join([i \in 1..Len(SelectSeq(content, LAMBDA c : c.has_text)) |->
                  SelectSeq(content, LAMBDA c : c.has_text)[i].text])
    ELSE <<"No response from tool">>

\* What execute_tool returns when the try block raises e.
ErrorMessage(e) == <<"Error executing tool: ", e>>

IsErrorMessage(text) == Len(text) = 2 /\ text[1] = "Error executing tool: "

\* The ways a connection or a tool call fails.
TransportErrors == {"Connection closed"}

\* How execute_tool's try block ended: the content the tool server answered
\* with, or the exception raised; NoOutcome before it ended.
NoOutcome == [kind |-> "none", content |-> <<>>, error |-> None]

ContentOutcome(content) == [kind |-> "content", content |-> content, error |-> None]

ErrorOutcome(e) == [kind |-> "error", content |-> <<>>, error |-> e]

\* How the body of an "async with client.connect()" block ends.
BodyExits == {"returned", "raised", "cancelled"}

\* Entering connect's two async with blocks (stdio_client, ClientSession):
\* the server's process is started and its session opened.
OpenSession(open, s) == open \cup {s}

\* A connect that releases the process and the session only when the body
\* returns.
CloseSessionOnReturn(open, s, how) == IF how = "returned" THEN open \ {s} ELSE open

\* Leaving connect's two async with blocks, however the body ended: the
\* session is closed and the process ended.
CloseSession(open, s, how) == open \ {s}

\* A result that reports the arguments as an empty dict.
DispatchResultEmptyArguments(response, server_name, tool_name, args, reasoning) ==
    [response |-> response, server_used |-> server_name, tool_used |-> tool_name,
     arguments_used |-> [form |-> "dict", items |-> [k \in {} |-> None]],
     reasoning |-> reasoning]

\* The dict run returns.
DispatchResult(response, server_name, tool_name, args, reasoning) ==
    [response |-> response, server_used |-> server_name, tool_used |-> tool_name,
     arguments_used |-> args, reasoning |-> reasoning]

\* The values of run's locals before run has assigned them.
NoMessage == <<>>

NoSelection == [server |-> None, tool |-> None, reasoning |-> <<>>]

NoArguments == [form |-> "none", items |-> [k \in {} |-> None]]

NoResult == DispatchResult(<<>>, None, None, NoArguments, <<>>)

registry == <<all_tools, tool_to_server, total_tools, failures, listed, init_pc>>

request == <<pc, user_message, selection, arguments, dispatch_result, raised,
             decider_log, connections, executions, invocations, tool_outcome>>

\* The state of what runs beside the startup discovery and the request:
\* the repeated fallback dispatch, a second call of initialize, the catalog
\* endpoint.
NoPrevious ==
    [message |-> NoMessage, errors |-> <<>>, server |-> None, tool |-> None,
     arguments |-> NoArguments]

NoRebuildStart == [catalog |-> <<>>, initialized |-> FALSE]

NoView == [taken |-> FALSE, during |-> FALSE, status |-> 0, catalog |-> <<>>]

\* Concurrent calls of discover_and_wrap_tools that are followed.
Calls == {1, 2}

wrapping == <<wrap_pc, langchain_tools, wrap_listed>>

\* Concurrent requests that are followed through execute_tool.
Requests == {1, 2}

\* MCPClient.session before connect has assigned it.
NoSession == 0

NoTask == [pc |-> "start", server |-> None, own |-> NoSession, over |-> NoSession,
           over_open |-> FALSE]

NoDirect == [made |-> FALSE, server |-> None, none_open |-> FALSE,
             over |-> NoSession, raised |-> None]

\* The calls a tool server receives that are followed.
MaxToolCalls == 2

\* A tool server's process before it is started.
NoToolCall == [name |-> None, arguments |-> [k \in {} |-> None]]

NoToolServer ==
    [program |-> None, validates |-> FALSE, pc |-> "off", call |-> NoToolCall,
     replies |-> <<>>]

sharing == <<client_session, live_sessions, sessions_made, tasks, direct>>

others ==
    <<previous, rebuild_pc, rebuild_listed, rebuild_start, view, view_connections,
      wrapping, sharing, tool_server>>

vars == <<registry, request, open_sessions, others>>

Init ==
    /\ all_tools = <<>>
    /\ tool_to_server = <<>>
    /\ total_tools = 0
    /\ failures = <<>>
    /\ listed = <<>>
    /\ init_pc = 1
    /\ pc = "idle"
    /\ user_message = NoMessage
    /\ selection = NoSelection
    /\ arguments = NoArguments
    /\ dispatch_result = NoResult
    /\ raised = None
    /\ decider_log = <<>>
    /\ connections = <<>>
    /\ executions = <<>>
    /\ invocations = <<>>
    /\ tool_outcome = NoOutcome
    /\ open_sessions = {}
    /\ previous = NoPrevious
    /\ rebuild_pc = 0
    /\ rebuild_listed = <<>>
    /\ rebuild_start = NoRebuildStart
    /\ view = NoView
    /\ view_connections = <<>>
    /\ wrap_pc = [c \in Calls |-> 1]
    /\ langchain_tools = [c \in Calls |-> <<>>]
    /\ wrap_listed = [c \in Calls |-> <<>>]
    /\ client_session = [s \in ClientNames |-> NoSession]
    /\ live_sessions = {}
    /\ sessions_made = 0
    /\ tasks = [r \in Requests |-> NoTask]
    /\ direct = NoDirect
    /\ tool_server = NoToolServer

\* One iteration of initialize's loop over clients, for server s whose
\* connection ends as out: the state after the try/except.
InitializeServer(st, s, out) ==
    IF ~out.ok
    THEN [st EXCEPT !.failures = Append(@, s)]
    ELSE LET tools == out.tools
             names == ToolNames(tools)
             registered ==
                 [st EXCEPT
                    !.all_tools = DictSet(@, s, tools),
                    !.tool_to_server =
                        [n \in (DOMAIN @) \cup names |-> IF n \in names THEN s ELSE @[n]]]
         IN  \* print(... tool.get('description', 'No description')[:60] ...)
             IF \E i \in 1..Len(tools) : tools[i].description = None
             THEN [registered EXCEPT !.failures = Append(@, s)]
             ELSE [registered EXCEPT !.total_tools = @ + Len(tools)]

\* How the body of initialize's "async with client.connect()" ends for a
\* connection that ends as out.
DiscoveryExit(out) ==
    IF out.ok /\ \A i \in 1..Len(out.tools) : out.tools[i].description # None
    THEN "returned"
    ELSE "raised"

\* lifespan awaits initialize before the application serves a request.
Initialized == init_pc > Len(clients)

DiscoverServer ==
    /\ init_pc <= Len(clients)
    /\ \E out \in DiscoveryOutcomes :
         LET st == InitializeServer(
                      [all_tools |-> all_tools, tool_to_server |-> tool_to_server,
                       total_tools |-> total_tools, failures |-> failures],
                      clients[init_pc], out)
         IN /\ all_tools' = st.all_tools
            /\ tool_to_server' = st.tool_to_server
            /\ total_tools' = st.total_tools
            /\ failures' = st.failures
            /\ listed' = Append(listed, out)
            /\ open_sessions' =
                  CloseSession(OpenSession(open_sessions, clients[init_pc]),
                               clients[init_pc], DiscoveryExit(out))
    /\ init_pc' = init_pc + 1
    /\ UNCHANGED <<request, others>>

\* chat: a request arrives and run starts.
Run ==
    /\ Initialized
    /\ pc \in {"idle", "done", "raised", "cancelled"}
    /\ \E m \in Messages : user_message' = m
    /\ pc' = "select_tool"
    /\ selection' = NoSelection
    /\ arguments' = NoArguments
    /\ dispatch_result' = NoResult
    /\ raised' = None
    /\ decider_log' = <<>>
    /\ connections' = <<>>
    /\ executions' = <<>>
    /\ invocations' = <<>>
    /\ tool_outcome' = NoOutcome
    /\ UNCHANGED <<registry, open_sessions, others>>

\* A run that goes from the selection straight to execute_tool, with no
\* arguments.
RunSelectToolThenExecute ==
    /\ pc = "select_tool"
    /\ \E reply \in SelectionReplies(all_tools) :
         LET r == SelectTool(all_tools, reply)
         IN /\ decider_log' = Append(decider_log, [op |-> "select_tool", reply |-> reply])
            /\ IF r.raised # None
               THEN /\ pc' = "raised"
                    /\ raised' = r.raised
                    /\ selection' = selection
                    /\ arguments' = arguments
               ELSE /\ pc' = "execute_tool"
                    /\ raised' = raised
                    /\ selection' = r.selection
                    /\ arguments' = EmptyDict
    /\ UNCHANGED <<registry, others, user_message, dispatch_result,
                   connections, executions, invocations, tool_outcome, open_sessions>>

\* run, step 1: selection = await self.select_tool(user_message)
RunSelectTool ==
    /\ pc = "select_tool"
    /\ \E reply \in SelectionReplies(all_tools) :
         LET r == SelectTool(all_tools, reply)
         IN /\ decider_log' = Append(decider_log, [op |-> "select_tool", reply |-> reply])
            /\ IF r.raised # None
               THEN /\ pc' = "raised"
                    /\ raised' = r.raised
                    /\ selection' = selection
               ELSE /\ pc' = "extract_arguments"
                    /\ raised' = raised
                    /\ selection' = r.selection
    /\ UNCHANGED <<registry, others, user_message, arguments, dispatch_result,
                   connections, executions, invocations, tool_outcome, open_sessions>>

\* run, step 2: arguments = await self.extract_arguments(...)
RunExtractArguments ==
    /\ pc = "extract_arguments"
    /\ IF AsksDecider(all_tools, selection.tool, selection.server)
       THEN \E reply \in ArgumentReplies(
                            SchemaProperties(all_tools, selection.tool, selection.server)) :
               LET e == ExtractArgumentsRaised(all_tools, user_message, selection.tool,
                                               selection.server, reply)
               IN /\ decider_log' =
                        Append(decider_log, [op |-> "extract_arguments", reply |-> reply])
                  /\ IF e # None
                     THEN /\ pc' = "raised"
                          /\ raised' = e
                          /\ arguments' = arguments
                     ELSE /\ pc' = "execute_tool"
                          /\ raised' = raised
                          /\ arguments' =
                                ExtractArguments(all_tools, user_message, selection.tool,
                                                 selection.server, reply)
       ELSE /\ arguments' = ExtractArguments(all_tools, user_message, selection.tool,
                                             selection.server, None)
            /\ decider_log' = decider_log
            /\ pc' = "execute_tool"
            /\ raised' = raised
    /\ UNCHANGED <<registry, others, user_message, selection, dispatch_result,
                   connections, executions, invocations, tool_outcome, open_sessions>>

\* run, step 3, up to the connection: client = clients[server_name] and
\* async with client.connect()
RunExecuteTool ==
    /\ pc = "execute_tool"
    /\ executions' = Append(executions,
                            InvocationRequest(selection.server, selection.tool, arguments))
    /\ IF selection.server \notin ClientNames
       THEN /\ dispatch_result' =
                  DispatchResult(ErrorMessage(selection.server), selection.server,
                                 selection.tool, arguments, selection.reasoning)
            /\ tool_outcome' = ErrorOutcome(selection.server)
            /\ pc' = "done"
            /\ connections' = connections
            /\ open_sessions' = open_sessions
       ELSE /\ connections' = Append(connections, selection.server)
            /\ \/ /\ pc' = "call_tool"
                  /\ dispatch_result' = dispatch_result
                  /\ tool_outcome' = tool_outcome
                  /\ open_sessions' = OpenSession(open_sessions, selection.server)
               \/ \E e \in TransportErrors :
                    /\ dispatch_result' =
                          DispatchResult(ErrorMessage(e), selection.server,
                                         selection.tool, arguments, selection.reasoning)
                    /\ tool_outcome' = ErrorOutcome(e)
                    /\ pc' = "done"
                    /\ open_sessions' =
                          CloseSession(OpenSession(open_sessions, selection.server),
                                       selection.server, "raised")
    /\ UNCHANGED <<registry, others, user_message, selection, arguments, raised,
                   decider_log, invocations>>

\* run, step 3, inside the connection: result = await client.call_tool(...),
\* the exit of the async with block and the return of run
RunCallTool ==
    /\ pc = "call_tool"
    /\ invocations' = Append(invocations,
                             InvocationRequest(selection.server, selection.tool, arguments))
    /\ \/ \E content \in ToolContents :
            /\ dispatch_result' =
                  DispatchResult(CallToolText(content), selection.server,
                                 selection.tool, arguments, selection.reasoning)
            /\ tool_outcome' = ContentOutcome(content)
            /\ open_sessions' = CloseSession(open_sessions, selection.server, "returned")
       \/ \E e \in TransportErrors :
            /\ dispatch_result' =
                  DispatchResult(ErrorMessage(e), selection.server,
                                 selection.tool, arguments, selection.reasoning)
            /\ tool_outcome' = ErrorOutcome(e)
            /\ open_sessions' = CloseSession(open_sessions, selection.server, "raised")
    /\ pc' = "done"
    /\ UNCHANGED <<registry, others, user_message, selection, arguments, raised,
                   decider_log, connections, executions>>

\* The task serving the request is cancelled at one of run's awaits: the
\* CancelledError passes execute_tool's "except Exception" and unwinds the
\* async with block it is in.
RunCancelled ==
    /\ pc \in {"select_tool", "extract_arguments", "execute_tool", "call_tool"}
    /\ open_sessions' =
          IF pc = "call_tool"
          THEN CloseSession(open_sessions, selection.server, "cancelled")
          ELSE open_sessions
    /\ pc' = "cancelled"
    /\ UNCHANGED <<registry, others, user_message, selection, arguments, dispatch_result,
                   raised, decider_log, connections, executions, invocations,
                   tool_outcome>>

Next ==
    \/ DiscoverServer
    \/ Run
    \/ RunSelectTool
    \/ RunExtractArguments
    \/ RunExecuteTool
    \/ RunCallTool
    \/ RunCancelled

Spec == Init /\ [][Next]_vars

(***************************************************************************)
(* The same system with peers that may never answer. None of run's awaits  *)
(* carries a timeout: llm.ainvoke (select_tool, extract_arguments), the    *)
(* handshake in connect and session.call_tool wait until the peer answers. *)
(***************************************************************************)
\* The peer run is waiting for never answers. At execute_tool the server's
\* process has been started and the handshake is what never completes.
AwaitHangs ==
    /\ \/ pc = "select_tool"
       \/ pc = "extract_arguments"
          /\ AsksDecider(all_tools, selection.tool, selection.server)
       \/ pc = "execute_tool" /\ selection.server \in ClientNames
       \/ pc = "call_tool"
    /\ IF pc = "execute_tool"
       THEN /\ executions' =
                  Append(executions,
                         InvocationRequest(selection.server, selection.tool, arguments))
            /\ connections' = Append(connections, selection.server)
            /\ open_sessions' = OpenSession(open_sessions, selection.server)
       ELSE UNCHANGED <<executions, connections, open_sessions>>
    /\ pc' = "hung"
    /\ UNCHANGED <<registry, others, user_message, selection, arguments, dispatch_result,
                   raised, decider_log, invocations, tool_outcome>>

NextLive ==
    \/ DiscoverServer
    \/ Run
    \/ RunSelectTool
    \/ RunExtractArguments
    \/ RunExecuteTool
    \/ RunCallTool
    \/ RunCancelled
    \/ AwaitHangs

\* The event loop runs every step of initialize and of run that is ready;
\* requests, cancellations and the peers' silence are up to the environment.
LiveSpec ==
    /\ Init
    /\ [][NextLive]_vars
    /\ WF_init_pc(DiscoverServer)
    /\ WF_pc(RunSelectTool)
    /\ WF_pc(RunExtractArguments)
    /\ WF_pc(RunExecuteTool)
    /\ WF_pc(RunCallTool)

(***************************************************************************)
(* Fallback dispatch, one request after another over the same catalog:     *)
(* select_tool and extract_arguments of a request for which every call of  *)
(* the Decider fails.                                                      *)
(***************************************************************************)
ErrorSelectionReply(e) == [kind |-> "error", error |-> e, server |-> None, tool |-> None]

ErrorArgumentReply(e) == [kind |-> "error", error |-> e, value |-> EmptyDict]

\* run up to execute_tool for message m, the Decider failing with e1 in
\* select_tool and with e2 in extract_arguments; the dispatch before it is
\* kept in previous, and one pair of dispatches is followed.
FallbackDispatch ==
    /\ Initialized
    /\ previous.message = NoMessage
    /\ pc \in {"idle", "execute_tool", "raised"}
    /\ \E m \in Messages, e1 \in DeciderErrors, e2 \in DeciderErrors :
         LET r == SelectTool(all_tools, ErrorSelectionReply(e1))
             selected == [op |-> "select_tool", reply |-> ErrorSelectionReply(e1)]
             extracted == [op |-> "extract_arguments", reply |-> ErrorArgumentReply(e2)]
         IN /\ user_message' = m
            /\ IF r.raised # None
               THEN /\ pc' = "raised"
                    /\ raised' = r.raised
                    /\ selection' = NoSelection
                    /\ arguments' = NoArguments
                    /\ decider_log' = <<selected>>
               ELSE /\ pc' = "execute_tool"
                    /\ raised' = None
                    /\ selection' = r.selection
                    /\ arguments' =
                          ExtractArguments(all_tools, m, r.selection.tool,
                                           r.selection.server, ErrorArgumentReply(e2))
                    /\ decider_log' =
                          IF AsksDecider(all_tools, r.selection.tool, r.selection.server)
                          THEN <<selected, extracted>>
                          ELSE <<selected>>
    /\ previous' =
          IF pc = "execute_tool"
          THEN [message |-> user_message,
                errors |-> [i \in 1..Len(decider_log) |-> decider_log[i].reply.error],
                server |-> selection.server, tool |-> selection.tool,
                arguments |-> arguments]
          ELSE previous
    /\ UNCHANGED <<registry, dispatch_result, connections, executions, invocations,
                   tool_outcome, open_sessions, rebuild_pc, rebuild_listed,
                   rebuild_start, view, view_connections, wrapping,
                   sharing, tool_server>>

NextTwin ==
    \/ DiscoverServer
    \/ FallbackDispatch

TwinSpec == Init /\ [][NextTwin]_vars

(***************************************************************************)
(* A second call of initialize on the serving agent, and the catalog       *)
(* endpoint reading the catalog while that call runs.  initialize is       *)
(* suspended in each server's connection; list_tools has no suspension     *)
(* point.                                                                  *)
(***************************************************************************)
\* lifespan creates the agent when GOOGLE_API_KEY is set (as it is here) and
\* config.json names at least one server.
AgentCreated == Len(clients) > 0

StartRebuild ==
    /\ Initialized
    /\ rebuild_pc = 0
    /\ rebuild_pc' = 1
    /\ rebuild_start' = [catalog |-> all_tools, initialized |-> TRUE]
    /\ UNCHANGED <<registry, request, open_sessions, previous, rebuild_listed,
                   view, view_connections, wrapping,
                   sharing, tool_server>>

Rebuilding == rebuild_pc \in 1..Len(clients)

RebuildServer ==
    /\ Rebuilding
    /\ \E out \in DiscoveryOutcomes :
         LET st == InitializeServer(
                      [all_tools |-> all_tools, tool_to_server |-> tool_to_server,
                       total_tools |-> 0, failures |-> failures],
                      clients[rebuild_pc], out)
         IN /\ all_tools' = st.all_tools
            /\ tool_to_server' = st.tool_to_server
            /\ failures' = st.failures
            /\ rebuild_listed' = Append(rebuild_listed, out)
            /\ open_sessions' =
                  CloseSession(OpenSession(open_sessions, clients[rebuild_pc]),
                               clients[rebuild_pc], DiscoveryExit(out))
    /\ rebuild_pc' = rebuild_pc + 1
    /\ UNCHANGED <<total_tools, listed, init_pc, request, previous, rebuild_start,
                   view, view_connections, wrapping,
                   sharing, tool_server>>

\* GET /tools of src/mcp_server_.py; one answer is followed.
ListTools ==
    /\ Initialized
    /\ ~view.taken
    /\ view' = [taken |-> TRUE, during |-> Rebuilding,
                status |-> IF AgentCreated THEN 200 ELSE 503,
                catalog |-> IF AgentCreated THEN all_tools ELSE <<>>]
    /\ UNCHANGED <<registry, request, open_sessions, previous, rebuild_pc,
                   rebuild_listed, rebuild_start, view_connections, wrapping,
                   sharing, tool_server>>

NextReader ==
    \/ DiscoverServer
    \/ StartRebuild
    \/ RebuildServer
    \/ ListTools

ReaderSpec == Init /\ [][NextReader]_vars

(***************************************************************************)
(* src/agents.py: discover_and_wrap_tools, called concurrently.  Each call *)
(* builds its own list langchain_tools; tool_to_server is shared.  A step  *)
(* is one iteration of the loop over the servers: the connection's awaits  *)
(* come first and the loop over the listing has no suspension point.       *)
(***************************************************************************)
\* What a server's list_tools may answer: the description-less tool may
\* come first.
WrapListings == Listings \cup { <<UndescribedTool, PostsTool>> }

WrapOutcomes == {ConnectFails} \cup {[ok |-> TRUE, tools |-> l] : l \in WrapListings}

\* The loop over tool_def appends the tool and then prints its description:
\* a tool without one is appended, the print raises and the loop ends.
WrappedTools(tools) ==
    IF \E i \in 1..Len(tools) : tools[i].description = None
    THEN SubSeq(tools, 1, CHOOSE i \in 1..Len(tools) :
                             /\ tools[i].description = None
                             /\ \A j \in 1..(i - 1) : tools[j].description # None)
    ELSE tools

WrapServer(c) ==
    /\ wrap_pc[c] <= Len(clients)
    /\ \E out \in WrapOutcomes :
         LET s == clients[wrap_pc[c]]
             wrapped == IF out.ok THEN WrappedTools(out.tools) ELSE <<>>
             names == ToolNames(wrapped)
         IN /\ tool_to_server' =
                  [n \in (DOMAIN tool_to_server) \cup names |->
                      IF n \in names THEN s ELSE tool_to_server[n]]
            /\ langchain_tools' =
                  [langchain_tools EXCEPT
                     ![c] = @ \o [i \in 1..Len(wrapped) |->
                                     [server |-> s, name |-> wrapped[i].name]]]
            /\ wrap_listed' = [wrap_listed EXCEPT ![c] = Append(@, out)]
            /\ open_sessions' =
                  CloseSession(OpenSession(open_sessions, s), s, DiscoveryExit(out))
    /\ wrap_pc' = [wrap_pc EXCEPT ![c] = @ + 1]
    /\ UNCHANGED <<all_tools, total_tools, failures, listed, init_pc, request,
                   previous, rebuild_pc, rebuild_listed, rebuild_start, view,
                   view_connections, sharing, tool_server>>

DiscoverAndWrapTools == \E c \in Calls : WrapServer(c)

WrapSpec == Init /\ [][DiscoverAndWrapTools]_vars

\* lifespan awaits the agent's discovery before the application serves.
StartupDiscovery == WrapServer(1)

\* The servers list_tools connects to when the connections end as outs:
\* the loop has no try, so it stops at the first connection that fails.
Connected(outs) ==
    LET RECURSIVE Upto(_)
        Upto(k) ==
            IF k > Len(clients) \/ ~outs[k].ok THEN <<>>
            ELSE <<clients[k]>> \o Upto(k + 1)
    IN Upto(1)

\* The sessions that are open after list_tools has entered and left the
\* connection of each server up to the first one that fails.
SessionsAfter(sessions, outs) ==
    LET RECURSIVE Visit(_, _)
        Visit(open, k) ==
            IF k > Len(clients) THEN open
            ELSE IF ~outs[k].ok
                 THEN CloseSession(OpenSession(open, clients[k]), clients[k], "raised")
                 ELSE Visit(CloseSession(OpenSession(open, clients[k]), clients[k],
                                         "returned"), k + 1)
    IN Visit(sessions, 1)

\* GET /tools of src/agents.py; one answer is followed.
AgentsListTools ==
    /\ wrap_pc[1] > Len(clients)
    /\ ~view.taken
    /\ \E outs \in [1..Len(clients) -> WrapOutcomes] :
         LET answered == \A k \in 1..Len(clients) : outs[k].ok
         IN /\ view_connections' = Connected(outs)
            /\ open_sessions' = SessionsAfter(open_sessions, outs)
            /\ view' = [taken |-> TRUE, during |-> FALSE,
                        status |-> IF answered THEN 200 ELSE 500,
                        catalog |-> IF answered
                                    THEN [k \in 1..Len(clients) |->
                                            [server |-> clients[k], tools |-> outs[k].tools]]
                                    ELSE <<>>]
    /\ UNCHANGED <<registry, request, previous, rebuild_pc, rebuild_listed,
                   rebuild_start, wrapping,
                   sharing, tool_server>>

NextAgents ==
    \/ StartupDiscovery
    \/ AgentsListTools

AgentsSpec == Init /\ [][NextAgents]_vars

(***************************************************************************)
(* MCPClient.session: one attribute per client, assigned by every connect  *)
(* of that client and never reset.  Concurrent requests run execute_tool   *)
(* on the shared clients; connect is suspended in the handshake            *)
(* (session.initialize, session.list_tools) and call_tool in its reply.    *)
(***************************************************************************)
\* async with stdio_client, async with ClientSession, self.session = session
TaskConnect(r) ==
    /\ tasks[r].pc = "start"
    /\ \E s \in ClientNames :
         \/ /\ sessions_made' = sessions_made + 1
            /\ live_sessions' = live_sessions \cup {sessions_made + 1}
            /\ client_session' = [client_session EXCEPT ![s] = sessions_made + 1]
            /\ tasks' = [tasks EXCEPT ![r] = [@ EXCEPT !.pc = "handshake", !.server = s,
                                                       !.own = sessions_made + 1]]
         \/ \* the server's process does not start
            /\ tasks' = [tasks EXCEPT ![r] = [@ EXCEPT !.pc = "done", !.server = s]]
            /\ UNCHANGED <<sessions_made, live_sessions, client_session>>
    /\ UNCHANGED <<registry, request, open_sessions, previous, rebuild_pc,
                   rebuild_listed, rebuild_start, view, view_connections, wrapping,
                   tool_server,
                   direct>>

\* The handshake ends; connect yields and the body calls client.call_tool,
\* which reads self.session and sends the call over it.
TaskCallTool(r) ==
    /\ tasks[r].pc = "handshake"
    /\ \/ /\ tasks' = [tasks EXCEPT ![r] =
                          [@ EXCEPT !.pc = "awaiting",
                                    !.over = client_session[tasks[r].server],
                                    !.over_open =
                                        client_session[tasks[r].server] \in live_sessions]]
          /\ UNCHANGED live_sessions
       \/ \* the handshake raises and connect's blocks are left
          /\ tasks' = [tasks EXCEPT ![r] = [@ EXCEPT !.pc = "done"]]
          /\ live_sessions' = live_sessions \ {tasks[r].own}
    /\ UNCHANGED <<registry, request, open_sessions, previous, rebuild_pc,
                   rebuild_listed, rebuild_start, view, view_connections, wrapping,
                   tool_server,
                   client_session, sessions_made, direct>>

\* call_tool's await ends (reply or exception) and connect's blocks are left:
\* the session is closed, self.session keeps it.
TaskExit(r) ==
    /\ tasks[r].pc = "awaiting"
    /\ tasks' = [tasks EXCEPT ![r] = [@ EXCEPT !.pc = "done"]]
    /\ live_sessions' = live_sessions \ {tasks[r].own}
    /\ UNCHANGED <<registry, request, open_sessions, previous, rebuild_pc,
                   rebuild_listed, rebuild_start, view, view_connections, wrapping,
                   tool_server,
                   client_session, sessions_made, direct>>

\* No session that a connect of server s opened is open.
NoneOpen(s) ==
    \A r \in Requests : tasks[r].server = s => tasks[r].own \notin live_sessions

\* The condition of call_tool's "if not self.session".
NotConnected(s) == client_session[s] = NoSession

\* MCPClient.call_tool called from outside "async with client.connect()";
\* one call is followed.
DirectCallTool ==
    /\ ~direct.made
    /\ \E s \in ClientNames :
         IF NotConnected(s)
         THEN direct' = [made |-> TRUE, server |-> s, none_open |-> NoneOpen(s),
                         over |-> NoSession,
                         raised |-> "Not connected to MCP server"]
         ELSE \/ /\ client_session[s] \in live_sessions
                 /\ direct' = [made |-> TRUE, server |-> s, none_open |-> NoneOpen(s),
                               over |-> client_session[s], raised |-> None]
              \/ \* the ClientSession raises, on a closed or on an open session
                 \E e \in TransportErrors :
                    direct' = [made |-> TRUE, server |-> s, none_open |-> NoneOpen(s),
                               over |-> client_session[s], raised |-> e]
    /\ UNCHANGED <<registry, request, open_sessions, previous, rebuild_pc,
                   rebuild_listed, rebuild_start, view, view_connections, wrapping,
                   tool_server,
                   client_session, live_sessions, sessions_made, tasks>>

NextSessions ==
    \/ \E r \in Requests : TaskConnect(r)
    \/ \E r \in Requests : TaskCallTool(r)
    \/ \E r \in Requests : TaskExit(r)
    \/ DirectCallTool

SessionSpec == Init /\ [][NextSessions]_vars

(***************************************************************************)
(* The tool servers: call_tool of src/server/weather_server.py and of      *)
(* src/mcp_server.py.  The MCP library that dispatches to the handler is   *)
(* not part of the sources: a build of it may check the arguments against  *)
(* the tool's inputSchema before the handler runs, or may not.             *)
(***************************************************************************)
ToolServerPrograms == {"src/server/weather_server.py", "src/mcp_server.py"}

\* The tools a program's call_tool knows, with the required keys of their
\* inputSchema.
ToolServerRequired(program, name) ==
    IF name = "get_current_weather" THEN {"city"} ELSE {}

ToolServerKnows(program, name) ==
    \/ name \in {"get_current_weather", "get_placeholder_posts"}
    \/ program = "src/server/weather_server.py" /\ name = "citrus_pests_diseases"
    \/ program = "src/mcp_server.py" /\ name = "get_pesticide_seed_info"

ToolCallNames ==
    {"get_current_weather", "get_placeholder_posts", "get_pesticide_seed_info",
     "citrus_pests_diseases"}

\* The arguments of a call: none, an empty city, a city.
ToolCallArguments ==
    { [k \in {} |-> None], [k \in {"city"} |-> ""], [k \in {"city"} |-> "Paris"] }

\* arguments.get(key)
ArgumentsGet(args, key) == IF key \in DOMAIN args THEN args[key] ELSE None

\* "if not city"
Falsy(value) == value = None \/ value = ""

\* f"https://wttr.in/{city}?format=j1": None is formatted as "None".
WttrPlace(city) == IF city = None THEN "None" ELSE city

\* Does the program's handler check the city before the lookup?
HandlerRequiresCity(program) == program = "src/server/weather_server.py"

ToolReply(call, kind, text, lookup) ==
    [name |-> call.name, arguments |-> call.arguments, kind |-> kind, text |-> text,
     lookup |-> lookup]

NoLookup == [service |-> None, place |-> None]

\* The server's process is started: python <program>.
StartToolServer ==
    /\ tool_server.pc = "off"
    /\ \E program \in ToolServerPrograms, validates \in BOOLEAN :
         tool_server' = [tool_server EXCEPT !.program = program,
                                            !.validates = validates, !.pc = "idle"]
    /\ UNCHANGED <<registry, request, open_sessions, previous, rebuild_pc,
                   rebuild_listed, rebuild_start, view, view_connections, wrapping,
                   sharing>>

\* call_tool up to its first await, or to its return when it awaits nothing.
ToolServerCallTool ==
    /\ tool_server.pc = "idle"
    /\ Len(tool_server.replies) < MaxToolCalls
    /\ \E name \in ToolCallNames, args \in ToolCallArguments :
         LET call == [name |-> name, arguments |-> args]
             program == tool_server.program
             city == ArgumentsGet(args, "city")
             answer(kind, text) ==
                 [tool_server EXCEPT
                    !.replies = Append(@, ToolReply(call, kind, text, NoLookup))]
         IN tool_server' =
              IF /\ tool_server.validates
                 /\ ToolServerKnows(program, name)
                 /\ ~(ToolServerRequired(program, name) \subseteq DOMAIN args)
              THEN answer("error", "Input validation error")
              ELSE IF name = "get_current_weather"
              THEN IF HandlerRequiresCity(program) /\ Falsy(city)
                   THEN answer("error", "Error: City name is required")
                   ELSE [tool_server EXCEPT !.pc = "fetching", !.call = call]
              ELSE IF name = "get_placeholder_posts"
              THEN [tool_server EXCEPT !.pc = "fetching", !.call = call]
              ELSE IF ToolServerKnows(program, name)
              THEN answer("text", "knowledge")
              ELSE answer("text", "Unknown tool")
    /\ UNCHANGED <<registry, request, open_sessions, previous, rebuild_pc,
                   rebuild_listed, rebuild_start, view, view_connections, wrapping,
                   sharing>>

\* The request to wttr.in or to jsonplaceholder ends; call_tool returns the
\* formatted answer or the error's text.
ToolServerLookupEnds ==
    /\ tool_server.pc = "fetching"
    /\ \E answered \in BOOLEAN :
         LET call == tool_server.call
             lookup == IF call.name = "get_current_weather"
                       THEN [service |-> "wttr.in",
                             place |-> WttrPlace(ArgumentsGet(call.arguments, "city"))]
                       ELSE [service |-> "jsonplaceholder.typicode.com",
                             place |-> "posts"]
         IN tool_server' =
              [tool_server EXCEPT
                 !.pc = "idle",
                 !.call = NoToolCall,
                 !.replies =
                    Append(@, ToolReply(call,
                                        IF answered THEN "text" ELSE "error",
                                        IF answered THEN "formatted answer"
                                        ELSE "Error: lookup failed",
                                        lookup))]
    /\ UNCHANGED <<registry, request, open_sessions, previous, rebuild_pc,
                   rebuild_listed, rebuild_start, view, view_connections, wrapping,
                   sharing>>

NextToolServer ==
    \/ StartToolServer
    \/ ToolServerCallTool
    \/ ToolServerLookupEnds

ToolServerSpec == Init /\ [][NextToolServer]_vars

(***************************************************************************)
(* Definitions the properties share.                                       *)
(***************************************************************************)
\* The first tool descriptor in catalog order: server iteration order, then
\* the order of the server's listing.
RECURSIVE FirstEntry(_)
FirstEntry(catalog) ==
    IF catalog = <<>> THEN [server |-> None, tool |-> None]
    ELSE IF catalog[1].tools # <<>>
    THEN [server |-> catalog[1].server, tool |-> catalog[1].tools[1].name]
    ELSE FirstEntry(Tail(catalog))

Selected == pc \in {"extract_arguments", "execute_tool", "call_tool", "done"}

Extracted == pc \in {"execute_tool", "call_tool", "done"}

Failed(s) == \E j \in 1..Len(failures) : failures[j] = s

\* The required parameters of the selected tool that have no default and
\* that the extracted arguments give no value.
RequiredWithoutValue ==
    LET properties == SchemaProperties(all_tools, selection.tool, selection.server)
        tool == ToolsNamed(all_tools, selection.server, selection.tool)[1]
    IN {properties[i].name : i \in
           {j \in 1..Len(properties) :
               /\ properties[j].name \in tool.required
               /\ ~properties[j].has_default
               /\ properties[j].name \notin DOMAIN arguments.items}}

(***************************************************************************)
(* C1. With at least one tool in the catalog, run returns a result and     *)
(* never raises, whatever the Decider and the tool call do.                *)
(***************************************************************************)
C1_RunNeverRaises ==
    CatalogSize(all_tools) >= 1 => pc # "raised"

(***************************************************************************)
(* C2. When the Decider's selection names a server or tool absent from the *)
(* catalog, the dispatch proceeds with the first catalog entry and a       *)
(* fallback rationale, and the absent name is not used for extraction or   *)
(* invocation.                                                             *)
(***************************************************************************)
C2_AbsentSelectionFallsBack ==
    (/\ Selected
     /\ CatalogSize(all_tools) >= 1
     /\ decider_log[1].reply.kind = "json"
     /\ ~InCatalog(all_tools, decider_log[1].reply.server, decider_log[1].reply.tool))
    => /\ selection.server = FirstEntry(all_tools).server
       /\ selection.tool = FirstEntry(all_tools).tool
       /\ selection.reasoning[1] = "Fallback due to error: "
       /\ \A i \in 1..Len(executions) :
             InCatalog(all_tools, executions[i].server, executions[i].tool)

(***************************************************************************)
(* C3. When the Decider raises or answers malformed output in selection    *)
(* and the catalog holds a tool, the fallback does not fail and selects    *)
(* the first tool descriptor in catalog order, which the selected server   *)
(* lists.                                                                  *)
(***************************************************************************)
C3_FallbackSelectsFirstTool ==
    (/\ pc \notin {"idle", "select_tool"}
     /\ CatalogSize(all_tools) >= 1
     /\ decider_log # <<>>
     /\ decider_log[1].reply.kind = "error")
    => /\ pc # "raised"
       /\ selection.server = FirstEntry(all_tools).server
       /\ selection.tool = FirstEntry(all_tools).tool
       /\ InCatalog(all_tools, selection.server, selection.tool)

(***************************************************************************)
(* C4. Every tool invocation goes to the server the registry               *)
(* (tool_to_server) records as the owner of the invoked tool.              *)
(***************************************************************************)
C4_InvokedOnOwningServer ==
    \A i \in 1..Len(invocations) :
        /\ invocations[i].tool \in DOMAIN tool_to_server
        /\ tool_to_server[invocations[i].tool] = invocations[i].server

(***************************************************************************)
(* C5. After a discovery pass in which some servers failed, the catalog    *)
(* holds exactly the tools of the other servers, each failed server is     *)
(* recorded once, the servers after a failed one are still discovered, and *)
(* the tool count is the sum over the servers that succeeded.              *)
(***************************************************************************)
C5_FailedServerIsSkipped ==
    Initialized =>
       /\ Len(listed) = Len(clients)
       /\ \A i \in 1..Len(clients) :
             /\ Cardinality({j \in 1..Len(failures) : failures[j] = clients[i]}) <= 1
             /\ Failed(clients[i]) => ~DictHas(all_tools, clients[i])
             /\ ~Failed(clients[i]) =>
                   /\ DictHas(all_tools, clients[i])
                   /\ DictGet(all_tools, clients[i], <<>>) = listed[i].tools
       /\ total_tools = CatalogSize(all_tools)

(***************************************************************************)
(* C6. After a discovery pass the catalog holds, for every server, all the *)
(* tools it listed or none, and a server with a recorded failure           *)
(* contributes no tool to the catalog or to the tool-to-server mapping.    *)
(***************************************************************************)
C6_AllOrNothingPerServer ==
    Initialized =>
       \A i \in 1..Len(clients) :
          /\ DictGet(all_tools, clients[i], <<>>) \in {<<>>, listed[i].tools}
          /\ Failed(clients[i]) =>
                /\ DictGet(all_tools, clients[i], <<>>) = <<>>
                /\ \A n \in DOMAIN tool_to_server : tool_to_server[n] # clients[i]

(***************************************************************************)
(* C7. When discovery found no tool on any server, every request ends in   *)
(* the error outcome at once: run does not raise, opens no connection to a *)
(* tool server and returns an error response.                              *)
(***************************************************************************)
C7_EmptyRegistryErrorsImmediately ==
    (Initialized /\ CatalogSize(all_tools) = 0 /\ pc # "idle")
    => /\ pc \notin {"raised", "call_tool"}
       /\ connections = <<>>
       /\ pc = "done" => IsErrorMessage(dispatch_result.response)

(***************************************************************************)
(* C8. Dispatch is single-shot: a request that has ended made exactly one  *)
(* tool invocation (one call of execute_tool), and no request makes a      *)
(* second selection round or a second invocation.                          *)
(***************************************************************************)
C8_SingleShot ==
    /\ Len(executions) <= 1
    /\ Len(invocations) <= 1
    /\ Len(SelectSeq(decider_log, LAMBDA d : d.op = "select_tool")) <= 1
    /\ pc \in {"done", "raised"} => Len(executions) = 1

(***************************************************************************)
(* C9. When a required parameter of the selected tool has no default and   *)
(* extraction gave it no value, the invocation is still attempted          *)
(* (execute_tool is never blocked), with exactly the extracted arguments,  *)
(* the parameter left out.                                                 *)
(***************************************************************************)
C9_MissingRequiredStillInvoked ==
    (/\ Extracted
     /\ InCatalog(all_tools, selection.server, selection.tool)
     /\ RequiredWithoutValue # {})
    => /\ pc = "execute_tool" => ENABLED RunExecuteTool
       /\ pc \in {"call_tool", "done"} => Len(executions) = 1
       /\ pc = "call_tool" => ENABLED RunCallTool
       /\ \A i \in 1..Len(executions) :
             /\ executions[i].arguments = arguments
             /\ RequiredWithoutValue \cap DOMAIN executions[i].arguments.items = {}
       /\ \A i \in 1..Len(invocations) :
             /\ invocations[i].arguments = arguments
             /\ RequiredWithoutValue \cap DOMAIN invocations[i].arguments.items = {}
       /\ pc = "done" => dispatch_result.arguments_used = arguments

\* The heuristic extractor left a required parameter without default out,
\* and the tool was invoked without it.
C9_Witness ==
    /\ pc = "done"
    /\ InCatalog(all_tools, selection.server, selection.tool)
    /\ decider_log[Len(decider_log)].op = "extract_arguments"
    /\ decider_log[Len(decider_log)].reply.kind = "error"
    /\ "days" \in RequiredWithoutValue
    /\ Len(invocations) = 1
    /\ "days" \notin DOMAIN invocations[1].arguments.items

(***************************************************************************)
(* C10. The arguments passed to a tool invocation have only keys that the  *)
(* schema of the invoked tool declares.                                    *)
(***************************************************************************)
C10_OnlySchemaKeysInvoked ==
    \A i \in 1..Len(invocations) :
        DOMAIN invocations[i].arguments.items \subseteq
            ParamNames(SchemaProperties(all_tools, invocations[i].tool,
                                        invocations[i].server))

(***************************************************************************)
(* Definitions the properties of argument extraction share.                *)
(***************************************************************************)
\* extract_arguments asked the Decider for this request's arguments.
DeciderExtracted ==
    /\ Extracted
    /\ decider_log[Len(decider_log)].op = "extract_arguments"

\* The Decider's reply to the argument prompt.
ExtractionReply == decider_log[Len(decider_log)].reply

\* The properties of the schema of the selected tool.
SelectedProperties == SchemaProperties(all_tools, selection.tool, selection.server)

\* The arguments of this request are those of the heuristic extractor.
HeuristicApplied == DeciderExtracted /\ ExtractionReply.kind = "error"

\* The names of the parameters the heuristic extractor sets for this request.
HeuristicKeys == DOMAIN BasicArgumentExtraction(user_message, SelectedProperties).items

(***************************************************************************)
(* C11. When the arguments the Decider extracted lack a required parameter *)
(* that has no default, the arguments of the request are those of the      *)
(* heuristic extractor and not the Decider's.                              *)
(***************************************************************************)
C11_MissingRequiredFallsBack ==
    (/\ DeciderExtracted
     /\ ExtractionReply.kind = "json"
     /\ ExtractionReply.value.form = "dict"
     /\ RequiredWithoutValue # {})
    => /\ DOMAIN arguments.items = HeuristicKeys
       /\ \A k \in DOMAIN arguments.items : arguments.items[k] # LLMValue

(***************************************************************************)
(* C12. When the Decider's answer to the argument prompt is unparseable or *)
(* is not a mapping, the arguments are those of the heuristic extractor;   *)
(* the arguments handed to execute_tool and to the invocation are always a *)
(* mapping.                                                                *)
(***************************************************************************)
C12_IllFormedOutputFallsBack ==
    Extracted =>
       /\ arguments.form = "dict"
       /\ \A i \in 1..Len(executions) : executions[i].arguments.form = "dict"
       /\ \A i \in 1..Len(invocations) : invocations[i].arguments.form = "dict"
       /\ (DeciderExtracted
           /\ (ExtractionReply.kind = "error" \/ ExtractionReply.value.form # "dict"))
          => DOMAIN arguments.items = HeuristicKeys

(***************************************************************************)
(* C13. For a tool whose schema is the single required string parameter    *)
(* city, the heuristic extractor applied to a request that reads           *)
(* '<words> in <Place>' yields exactly {city: <Place>}, the punctuation    *)
(* after <Place> removed.                                                  *)
(***************************************************************************)
\* s without the characters ? . , ! at its two ends.
RECURSIVE Trimmed(_)
Trimmed(s) ==
    IF s = <<>> THEN s
    ELSE IF s[1] \in {"?", ".", ",", "!"} THEN Trimmed(Tail(s))
    ELSE IF s[Len(s)] \in {"?", ".", ",", "!"} THEN Trimmed(SubSeq(s, 1, Len(s) - 1))
    ELSE s

\* The request reads '<words> in <Place>': its last word is <Place> and the
\* word before it is "in", after at least one other word.
ReadsInPlace(message) ==
    LET words == Split(message)
    IN /\ Len(words) >= 3
       /\ words[Len(words) - 1] = <<"i", "n">>
       /\ Trimmed(words[Len(words)]) # <<>>

\* <Place>, without the punctuation around it.
PlaceOf(message) == Trimmed(Split(message)[Len(Split(message))])

\* The heuristic extractor was applied for a tool whose schema is the single
\* required string parameter city.
HeuristicAppliedToCity ==
    /\ HeuristicApplied
    /\ SelectedProperties = <<CityParam>>
    /\ ToolsNamed(all_tools, selection.server, selection.tool)[1].required = {"city"}

\* The statement as claimed.
C13_InPlaceYieldsPlace ==
    (HeuristicAppliedToCity /\ ReadsInPlace(user_message))
    => /\ DOMAIN arguments.items = {"city"}
       /\ arguments.items["city"] = PlaceOf(user_message)

\* No word of <words> is one of "in", "for", "at", in any case.
PlainWords(message) ==
    LET words == Split(message)
    IN \A i \in 1..(Len(words) - 2) :
          Lower(words[i]) \notin {<<"i", "n">>, <<"f", "o", "r">>, <<"a", "t">>}

\* The statement that holds: when no word before the "in" is a preposition
\* the extractor looks for, it yields {city: <Place> in title case}, which
\* is {city: <Place>} for a <Place> written in title case.
C13_InPlaceYieldsTitledPlace ==
    (HeuristicAppliedToCity /\ ReadsInPlace(user_message) /\ PlainWords(user_message))
    => /\ DOMAIN arguments.items = {"city"}
       /\ arguments.items["city"] = Title(PlaceOf(user_message))
       /\ PlaceOf(user_message) = Title(PlaceOf(user_message))
             => arguments.items["city"] = PlaceOf(user_message)

\* 'What's the weather in Tokyo?' went through the heuristic extractor and
\* the tool was called with {city: Tokyo}.
C13_Witness ==
    /\ pc = "done"
    /\ HeuristicAppliedToCity
    /\ ReadsInPlace(user_message)
    /\ PlainWords(user_message)
    /\ Split(user_message)[Len(Split(user_message))] = <<"T", "o", "k", "y", "o", "?">>
    /\ arguments.items["city"] = <<"T", "o", "k", "y", "o">>
    /\ Len(invocations) = 1

(***************************************************************************)
(* C14. For every integer parameter the heuristic extractor yields the     *)
(* first integer literal of the request text when there is one, otherwise  *)
(* the default the parameter declares when it declares one, and otherwise  *)
(* leaves the parameter out. An integer literal is a run of digits that    *)
(* stands alone: a maximal run of letters, digits and underscores that is  *)
(* all digits.                                                             *)
(***************************************************************************)
\* The maximal runs of letters, digits and underscores of s from position i
\* on, in order.
RECURSIVE WordRunsFrom(_, _)
WordRunsFrom(s, i) ==
    IF i > Len(s) THEN <<>>
    ELSE IF ~IsWordChar(s[i]) THEN WordRunsFrom(s, i + 1)
    ELSE LET stops == {j \in i..Len(s) : ~IsWordChar(s[j])}
             end == IF stops = {} THEN Len(s) + 1
                    ELSE CHOOSE j \in stops : \A k \in stops : j <= k
         IN <<SubSeq(s, i, end - 1)>> \o WordRunsFrom(s, end)

\* The integer literals of s, in order.
IntegerLiterals(s) ==
    SelectSeq(WordRunsFrom(s, 1), LAMBDA w : \A k \in 1..Len(w) : IsDigit(w[k]))

C14_IntegerParameter ==
    HeuristicApplied =>
       \A i \in 1..Len(SelectedProperties) :
          SelectedProperties[i].type = "integer" =>
             LET p == SelectedProperties[i]
                 literals == IntegerLiterals(user_message)
             IN IF literals # <<>>
                THEN /\ p.name \in DOMAIN arguments.items
                     /\ arguments.items[p.name] = IntOf(literals[1])
                ELSE IF p.has_default
                THEN /\ p.name \in DOMAIN arguments.items
                     /\ arguments.items[p.name] = p.default
                ELSE p.name \notin DOMAIN arguments.items

\* 'v2 has 7x 42 posts' went through the heuristic extractor for
\* get_placeholder_posts and the tool was called with {limit: 42}.
C14_Witness ==
    /\ pc = "done"
    /\ HeuristicApplied
    /\ SelectedProperties = <<LimitParam>>
    /\ Len(IntegerLiterals(user_message)) = 1
    /\ Len(WordRunsFrom(user_message, 1)) = 5
    /\ Len(invocations) = 1
    /\ invocations[1].arguments.items["limit"] = 42

(***************************************************************************)
(* C15. The heuristic extractor never fails: whenever extract_arguments    *)
(* calls it, for any request text and any schema, it raises nothing and    *)
(* returns a mapping of parameters of the schema.                          *)
(***************************************************************************)
\* extract_arguments called the heuristic extractor for this request.
HeuristicCalled ==
    /\ pc \notin {"idle", "select_tool", "extract_arguments"}
    /\ decider_log # <<>>
    /\ decider_log[Len(decider_log)].op = "extract_arguments"
    /\ decider_log[Len(decider_log)].reply.kind = "error"

HasPlacePhrase(message) ==
    LET words == Split(message)
    IN \E i \in 1..(Len(words) - 1) :
          Lower(words[i]) \in {<<"i", "n">>, <<"f", "o", "r">>, <<"a", "t">>}

C16_UndeterminedIsOmitted ==
    (/\ HeuristicApplied
     /\ "city" \in ParamNames(SelectedProperties)
     /\ ~HasPlacePhrase(user_message))
    => "city" \notin DOMAIN arguments.items

(***************************************************************************)
(* C17. Every session opened for a discovery or an invocation is released  *)
(* when the call ends, however it ends: outside a tool call in progress no *)
(* server process or session is open, neither after a discovery that       *)
(* returned or failed nor after an execute_tool that returned, failed or   *)
(* was abandoned; during the call only the session of the called server is *)
(* open.                                                                   *)
(***************************************************************************)
C17_SessionsReleased ==
    /\ pc # "call_tool" => open_sessions = {}
    /\ pc = "call_tool" => open_sessions = {selection.server}

\* After a discovery in which a server failed, a request was abandoned in
\* the middle of its tool call, and no session is left open.
C17_Witness ==
    /\ pc = "cancelled"
    /\ failures # <<>>
    /\ connections # <<>>
    /\ invocations = <<>>
    /\ open_sessions = {}

(***************************************************************************)
(* C18. When the tool server answers with no content item, call_tool       *)
(* returns the text 'No response from tool' and not the empty string; when *)
(* it answers with one or more text items, call_tool returns their texts   *)
(* in order, joined by newlines.                                           *)
(***************************************************************************)
\* The texts of the text items of a content, in order.
TextsOf(content) ==
    LET items == SelectSeq(content, LAMBDA c : c.has_text)
    IN [i \in 1..Len(items) |-> items[i].text]

C18_ContentNormalised ==
    (pc = "done" /\ tool_outcome.kind = "content")
    => LET texts == TextsOf(tool_outcome.content)
           response == dispatch_result.response
       IN /\ tool_outcome.content = <<>>
             => response = <<"No response from tool">> /\ response # <<>>
          /\ texts # <<>>
             => /\ Len(response) = 2 * Len(texts) - 1
                /\ \A k \in 1..Len(texts) : response[2 * k - 1] = texts[k]
                /\ \A k \in 1..(Len(texts) - 1) : response[2 * k] = "\n"

\* A tool call that the server answered with no content item ended with the
\* sentinel text as the response.
C18_Witness ==
    /\ pc = "done"
    /\ Len(invocations) = 1
    /\ tool_outcome.kind = "content"
    /\ tool_outcome.content = <<>>
    /\ dispatch_result.response = <<"No response from tool">>

(***************************************************************************)
(* C19. When the tool invocation fails, the result run returns carries the *)
(* failure message in an error detail field and not in its response text,  *)
(* which is a generic apology.                                             *)
(***************************************************************************)
C19_FailureInErrorDetail ==
    (pc = "done" /\ tool_outcome.kind = "error")
    => /\ "error" \in DOMAIN dispatch_result
       /\ \A i \in 1..Len(dispatch_result.response) :
             dispatch_result.response[i] # tool_outcome.error

(***************************************************************************)
(* C20. A failure of the Decider, in selection or in argument extraction,  *)
(* is not visible in the result run returns: neither the reasoning nor the *)
(* response holds the Decider's error.                                     *)
(***************************************************************************)
C20_DeciderFailureInvisible ==
    pc = "done" =>
       \A j \in 1..Len(decider_log) :
          decider_log[j].reply.kind = "error" =>
             /\ \A i \in 1..Len(dispatch_result.reasoning) :
                   dispatch_result.reasoning[i] # decider_log[j].reply.error
             /\ \A i \in 1..Len(dispatch_result.response) :
                   dispatch_result.response[i] # decider_log[j].reply.error

(***************************************************************************)
(* The HTTP layer: lifespan and the chat endpoint.                         *)
(***************************************************************************)
\* ChatResponse(**result): arguments_used must be a dict (or None).
ValidChatResponse(result) == result.arguments_used.form = "dict"

\* The status chat answers the request with; 0 while it has not answered.
ChatStatus ==
    IF ~AgentCreated THEN 503
    ELSE IF pc = "raised" THEN 500
    ELSE IF pc = "done"
    THEN IF ValidChatResponse(dispatch_result) THEN 200 ELSE 500
    ELSE 0

(***************************************************************************)
(* C24. After the discovery pass every tool name occurs at most once in    *)
(* the catalog (of two servers that list a tool of the same name only the  *)
(* later one keeps it).                                                    *)
(***************************************************************************)
C24_ToolNamesUnique ==
    Initialized =>
       \A i, j \in 1..Len(all_tools) :
          \A a \in 1..Len(all_tools[i].tools) :
             \A b \in 1..Len(all_tools[j].tools) :
                all_tools[i].tools[a].name = all_tools[j].tools[b].name
                   => i = j /\ a = b

(***************************************************************************)
(* C25. When servers are configured and discovery found no tool on any of  *)
(* them, the chat endpoint answers every request with status 503.          *)
(***************************************************************************)
C25_NoToolsIsUnavailable ==
    (/\ Len(clients) > 0
     /\ Initialized
     /\ CatalogSize(all_tools) = 0
     /\ pc \in {"done", "raised"})
    => ChatStatus = 503

(***************************************************************************)
(* C27. Within one request the steps come in the order selection, argument *)
(* extraction, invocation, completion: the tool is invoked only after      *)
(* selection and extraction have finished, no step happens twice, and      *)
(* after the request has ended, in a result or in an error, nothing more   *)
(* happens to it; the next step is a new request.                          *)
(***************************************************************************)
\* The steps of a request, as pairs of places in run.
StepOrder ==
    { <<"select_tool", "extract_arguments">>, <<"extract_arguments", "execute_tool">>,
      <<"execute_tool", "call_tool">>, <<"execute_tool", "done">>,
      <<"call_tool", "done">>,
      <<"select_tool", "raised">>, <<"extract_arguments", "raised">> }
    \cup {<<p, "cancelled">> :
             p \in {"select_tool", "extract_arguments", "execute_tool", "call_tool"}}

\* The places a request has ended in, or none has started.
Ended == {"idle", "done", "raised", "cancelled"}

C27_StepsInOrder ==
    [][(\/ pc' # pc
        \/ decider_log' # decider_log
        \/ executions' # executions
        \/ invocations' # invocations)
       => IF pc \in Ended
          THEN /\ pc' = "select_tool"
               /\ decider_log' = <<>> /\ executions' = <<>> /\ invocations' = <<>>
          ELSE /\ <<pc, pc'>> \in StepOrder
               /\ invocations' # invocations
                     => /\ pc = "call_tool"
                        /\ Len(invocations') = 1
                        /\ Len(executions) = 1
                        /\ decider_log # <<>>
                        /\ decider_log[1].op = "select_tool"
                        /\ invocations'[1].arguments = arguments
               /\ executions' # executions
                     => pc = "execute_tool" /\ Len(executions') = 1
               /\ decider_log' # decider_log
                     => pc \in {"select_tool", "extract_arguments"}]_vars

\* A request went through selection, extraction and one invocation, and
\* ended.
C27_Witness ==
    /\ pc = "done"
    /\ Len(decider_log) = 2
    /\ decider_log[1].op = "select_tool"
    /\ decider_log[2].op = "extract_arguments"
    /\ Len(executions) = 1
    /\ Len(invocations) = 1

(***************************************************************************)
(* C28. For every message sent to the chat endpoint of an initialized      *)
(* agent whose catalog holds a tool, the endpoint answers with status 200  *)
(* and a body with a response text.                                        *)
(***************************************************************************)
C28_ChatAnswersSuccess ==
    (/\ AgentCreated
     /\ Initialized
     /\ CatalogSize(all_tools) >= 1
     /\ pc \in {"done", "raised"})
    => /\ ChatStatus = 200
       /\ dispatch_result.response # <<>>

(***************************************************************************)
(* C30. A server whose discovery failed is unusable: no request opens a    *)
(* connection to it or invokes a tool on it.                               *)
(***************************************************************************)
C30_FailedServerUnused ==
    /\ \A i \in 1..Len(connections) : ~Failed(connections[i])
    /\ \A i \in 1..Len(invocations) : ~Failed(invocations[i].server)

(***************************************************************************)
(* C21. Every dispatch eventually ends, also when the handshake of a tool  *)
(* server, the Decider or the tool call never answers: a request that has  *)
(* started reaches a result, an error or its cancellation.                 *)
(***************************************************************************)
C21_EveryDispatchEnds ==
    (pc = "select_tool") ~> (pc \in {"done", "raised", "cancelled"})

(***************************************************************************)
(* C26. Fallback dispatch is deterministic: two dispatches of the same     *)
(* request text over the same catalog, the Decider failing in both, select *)
(* the same server and the same tool and extract the same arguments,       *)
(* whatever the errors of the Decider are.                                 *)
(***************************************************************************)
C26_FallbackDeterministic ==
    (pc = "execute_tool" /\ previous.message = user_message)
    => /\ previous.server = selection.server
       /\ previous.tool = selection.tool
       /\ previous.arguments = arguments

\* The same text was dispatched twice, the Decider failing with different
\* errors, and the heuristic extractor gave both dispatches an argument.
C26_Witness ==
    /\ pc = "execute_tool"
    /\ previous.message = user_message
    /\ Len(decider_log) = 2
    /\ previous.errors # [i \in 1..Len(decider_log) |-> decider_log[i].reply.error]
    /\ previous.errors[1] # decider_log[1].reply.error
    /\ DOMAIN arguments.items # {}
    /\ previous.arguments = arguments

\* The names call c wrapped for server s, in order.
WrappedFor(c, s) ==
    LET RECURSIVE Pick(_)
        Pick(i) ==
            IF i > Len(langchain_tools[c]) THEN <<>>
            ELSE IF langchain_tools[c][i].server = s
                 THEN <<langchain_tools[c][i].name>> \o Pick(i + 1)
                 ELSE Pick(i + 1)
    IN Pick(1)

NamesInOrder(tools) == [i \in 1..Len(tools) |-> tools[i].name]

(***************************************************************************)
(* C22. Under any interleaving of two concurrent rebuilds, the catalog a   *)
(* call has built holds, for each server, either none of the tools the     *)
(* server listed to that call or all of them.                              *)
(***************************************************************************)
C22_NoPartialServer ==
    \A c \in Calls : \A k \in 1..Len(wrap_listed[c]) :
        \/ WrappedFor(c, clients[k]) = <<>>
        \/ WrappedFor(c, clients[k]) = NamesInOrder(wrap_listed[c][k].tools)

(***************************************************************************)
(* C23. A reader of the catalog that runs while a rebuild is in progress   *)
(* observes the complete catalog from before the rebuild or the complete   *)
(* catalog after it, never one in which only some servers were rebuilt.    *)
(***************************************************************************)
C23_ReaderSeesOldOrNew ==
    (view.taken /\ view.during /\ rebuild_pc > Len(clients))
    => \/ view.catalog = rebuild_start.catalog
       \/ view.catalog = all_tools

(***************************************************************************)
(* C29. Serving the catalog view is read-only: once the view has been      *)
(* served, the endpoint has opened no connection to any tool server.       *)
(***************************************************************************)
C29_CatalogViewOpensNoConnection ==
    view.taken => view_connections = <<>>

\* The second call of initialize has visited every server.
Rebuilt == rebuild_pc > Len(clients)

\* The names of the tools the servers listed to the second call.
LastPassNames ==
    UNION { ToolNames(rebuild_listed[k].tools) : k \in 1..Len(rebuild_listed) }

(***************************************************************************)
(* C31. The registry is rebuilt by a full discovery pass: after a second   *)
(* pass the catalog holds, for each server, the listing the server gave to *)
(* that pass and no entry for a server whose connection failed in it, and  *)
(* the tool-to-server mapping holds the names of that pass only.           *)
(***************************************************************************)
C31_RegistryIsLastPass ==
    Rebuilt =>
       /\ \A k \in 1..Len(clients) :
             IF rebuild_listed[k].ok
             THEN /\ DictHas(all_tools, clients[k])
                  /\ DictGet(all_tools, clients[k], <<>>) = rebuild_listed[k].tools
             ELSE ~DictHas(all_tools, clients[k])
       /\ DOMAIN tool_to_server = LastPassNames

(***************************************************************************)
(* C32. When two requests concurrently invoke tools on the same server,    *)
(* each request's tool call goes over the session this request opened,     *)
(* and that session is open when the call is sent.                         *)
(***************************************************************************)
C32_CallOverOwnSession ==
    \A r \in Requests :
        tasks[r].over # NoSession
        => tasks[r].over = tasks[r].own /\ tasks[r].over_open

(***************************************************************************)
(* C33. MCPClient.call_tool issued while no session of that client is open *)
(* fails with the 'Not connected to MCP server' error and goes over no     *)
(* session, also after an earlier connection was opened and closed.        *)
(***************************************************************************)
C33_NotConnectedWhenNoneOpen ==
    (direct.made /\ direct.none_open)
    => /\ direct.raised = "Not connected to MCP server"
       /\ direct.over = NoSession

\* The rationale select_tool gives for the Decider's reply to this request.
SelectionRationale ==
    IF decider_log[1].reply.kind = "json"
    THEN LLMReasoning
    ELSE FallbackReasoning(decider_log[1].reply.error)

(***************************************************************************)
(* C34. The server, tool and arguments a dispatch result reports are those *)
(* of the request's one call of execute_tool and of every invocation it    *)
(* sent, and the rationale it reports is that of the selection that chose  *)
(* them.                                                                   *)
(***************************************************************************)
C34_ResultReportsWhatWasUsed ==
    pc = "done"
    => /\ Len(executions) = 1
       /\ \A u \in {executions[i] : i \in 1..Len(executions)}
                \cup {invocations[i] : i \in 1..Len(invocations)} :
             /\ dispatch_result.server_used = u.server
             /\ dispatch_result.tool_used = u.tool
             /\ dispatch_result.arguments_used = u.arguments
       /\ dispatch_result.reasoning = selection.reasoning
       /\ dispatch_result.reasoning = SelectionRationale

\* A request ended whose invocation carried an argument the Decider gave.
C34_Witness ==
    /\ pc = "done"
    /\ Len(invocations) = 1
    /\ DOMAIN invocations[1].arguments.items # {}
    /\ dispatch_result.arguments_used = invocations[1].arguments
    /\ dispatch_result.reasoning = LLMReasoning

(***************************************************************************)
(* The counts the endpoints of src/agents.py report.                       *)
(***************************************************************************)
\* "total_tools" of GET / and "tools_loaded" of GET /health:
\* len(dynamic_agent.tool_wrapper.tool_to_server)
AgentsToolsLoaded == Cardinality(DOMAIN tool_to_server)

\* The sum of the tool counts of the servers whose discovery succeeded in
\* the pass that answered outs.
RECURSIVE DiscoveredCount(_)
DiscoveredCount(outs) ==
    IF outs = <<>> THEN 0
    ELSE (IF DiscoveryExit(outs[1]) = "returned" THEN Len(outs[1].tools) ELSE 0)
         + DiscoveredCount(Tail(outs))

\* "total_tools" of GET /tools: sum(len(t) for t in tools_by_server.values())
ViewTotalTools == CatalogSize(view.catalog)

(***************************************************************************)
(* C35. After discovery, the tool count of the info and health endpoints   *)
(* is the sum of the tool counts of the servers whose discovery succeeded, *)
(* and a tools endpoint that answers reports the same total.               *)
(***************************************************************************)
C35_CountsAgree ==
    wrap_pc[1] > Len(clients)
    => /\ AgentsToolsLoaded = DiscoveredCount(wrap_listed[1])
       /\ (view.taken /\ view.status = 200) => ViewTotalTools = AgentsToolsLoaded

\* The selected tool is not listed under the selected server, or its schema
\* declares no parameters.
NothingToExtract ==
    \/ ~InCatalog(all_tools, selection.server, selection.tool)
    \/ ToolsNamed(all_tools, selection.server, selection.tool)[1].properties = <<>>

(***************************************************************************)
(* C36. When the selected tool is not listed under the selected server or  *)
(* its schema declares no parameters, argument extraction returns the      *)
(* empty argument set without calling the Decider, and execute_tool and    *)
(* the invocation proceed with no arguments.                               *)
(***************************************************************************)
C36_NothingToExtractIsEmpty ==
    (Extracted /\ NothingToExtract)
    => /\ arguments = EmptyDict
       /\ Len(decider_log) = 1
       /\ decider_log[1].op = "select_tool"
       /\ pc = "execute_tool" => ENABLED RunExecuteTool
       /\ pc \in {"call_tool", "done"} => Len(executions) = 1
       /\ \A i \in 1..Len(executions) : executions[i].arguments = EmptyDict
       /\ \A i \in 1..Len(invocations) : invocations[i].arguments = EmptyDict

\* A tool without parameters was invoked with no arguments.
C36_Witness ==
    /\ pc = "done"
    /\ InCatalog(all_tools, selection.server, selection.tool)
    /\ NothingToExtract
    /\ Len(invocations) = 1
    /\ invocations[1].arguments = EmptyDict
    /\ Len(decider_log) = 1

\* A get_current_weather call without a city.
WeatherWithoutCity(call) ==
    call.name = "get_current_weather" /\ "city" \notin DOMAIN call.arguments

(***************************************************************************)
(* C37. A get_current_weather call that arrives without a city is rejected *)
(* by the tool server with an error text and causes no lookup to the       *)
(* external weather service.                                               *)
(***************************************************************************)
C37_MissingCityRejected ==
    /\ tool_server.pc = "fetching" => ~WeatherWithoutCity(tool_server.call)
    /\ \A i \in 1..Len(tool_server.replies) :
          WeatherWithoutCity(tool_server.replies[i])
          => /\ tool_server.replies[i].kind = "error"
             /\ tool_server.replies[i].lookup = NoLookup

\* A request text that matches no tool description.
Greeting == <<"H", "e", "l", "l", "o">>

(***************************************************************************)
(* C38. A request that matches no tool description (a greeting) is         *)
(* dispatched to the default tool get_pesticide_seed_info of the           *)
(* agricultural server, when the catalog lists that tool there.            *)
(***************************************************************************)
C38_GreetingGoesToDefault ==
    (/\ Selected
     /\ user_message = Greeting
     /\ InCatalog(all_tools, "agricultural-server", "get_pesticide_seed_info"))
    => /\ selection.server = "agricultural-server"
       /\ selection.tool = "get_pesticide_seed_info"
=============================================================================
